---- MODULE Spec2Model ----
(***************************************************************************)
(* Model of piglot's driver (piglot/bin/piglot.py), of the solver registry *)
(* (piglot/solver/__init__.py) and of the surrogate construction           *)
(* (piglot/utils/surrogate.py).                                            *)
(*                                                                         *)
(* Python dictionaries are functions from key strings to values; a key is  *)
(* present iff it is in the DOMAIN.  An exception is a record              *)
(* [type, msg]; msg is the sequence of fragments the f-string joins.       *)
(***************************************************************************)
EXTENDS Naturals, Integers, Sequences, FiniteSets, TLC

VARIABLES
    \* ---- main() of piglot/bin/piglot.py
    pc,                 \* statement of main about to be executed
    yaml,               \* content of the configuration file given on the command line
    parsed,             \* the dictionary as parse_config_file returned it
    config,             \* main's local `config` (mutable, shared by reference)
    fs,                 \* the path config["output"] on disk: [kind, files]
    fs0,                \* that path as it was when main started
    parameters,         \* main's local `parameters`
    objective,          \* main's local `objective` ("none" until built)
    optimiser,          \* main's local `optimiser`
    stop,               \* main's local `stop`
    best_params,        \* second component of what optimise returned
    err,                \* the exception that left main, NoError otherwise
    log,                \* calls made by main, in order
    reads,              \* arguments of every backend read() call
    simRuns,            \* objective evaluations made inside optimise
    driverEvals,        \* arguments of the objective calls main makes itself
    AVAILABLE_SOLVERS,  \* the module-level registry dictionary
    \* ---- read_solver called on its own
    rs_pc, rs_in, rs_config, rs_parameters, rs_output_dir, rs_out,
    \* ---- get_model
    gm_pc, x_data, y_data, var_data, noisy, built, fitCalls, gm_ret, gm_err

mainVars == <<pc, yaml, parsed, config, fs, fs0, parameters, objective, optimiser, stop,
              best_params, err, log, reads, simRuns, driverEvals>>
solverVars == <<rs_pc, rs_in, rs_config, rs_parameters, rs_output_dir, rs_out>>
modelVars == <<gm_pc, x_data, y_data, var_data, noisy, built, fitCalls, gm_ret, gm_err>>
vars == <<mainVars, solverVars, modelVars, AVAILABLE_SOLVERS>>

\* ------------------------------------------------------------------ bounds
MaxIters == 1       \* largest value of config["iters"]
MaxParams == 2      \* largest ParameterSet
MaxDim == 2         \* most columns of x_data
MaxRows == 2        \* most rows of x_data

\* ------------------------------------------------------------- exceptions
NoError == [type |-> "none", msg |-> <<>>]
Error(t, m) == [type |-> t, msg |-> m]
\* the message contains s
Mentions(e, s) == \E i \in 1..Len(e.msg) : e.msg[i] = s

\* --------------------------------------------------------------- registry
SolverRegistry == [links |-> "LinksSolver"]

\* dict.pop(key): the dictionary without the key
Pop(d, key) == [k \in (DOMAIN d) \ {key} |-> d[k]]

read_solver_keepname(registry, cfg, params, output_dir, readOk) ==
    IF "name" \notin DOMAIN cfg
    THEN [config |-> cfg, raised |-> Error("ValueError", <<"Missing name for solver.">>),
          reads |-> <<>>, ret |-> "none"]
    ELSE LET name == cfg["name"] IN
         IF name \notin DOMAIN registry
         THEN [config |-> cfg,
               raised |-> Error("ValueError", <<"Unknown solver '", name, "'.">>),
               reads |-> <<>>, ret |-> "none"]
         ELSE [config |-> cfg,
               raised |-> IF readOk THEN NoError ELSE Error("BackendError", <<"read">>),
               reads |-> <<[cls |-> registry[name], config |-> cfg,
                            parameters |-> params, output_dir |-> output_dir]>>,
               ret |-> IF readOk THEN registry[name] ELSE "none"]

read_solver_nomention(registry, cfg, params, output_dir, readOk) ==
    IF "name" \notin DOMAIN cfg
    THEN [config |-> cfg, raised |-> Error("ValueError", <<"Missing name for solver.">>),
          reads |-> <<>>, ret |-> "none"]
    ELSE LET name == cfg["name"]
             popped == Pop(cfg, "name") IN
         IF name \notin DOMAIN registry
         THEN [config |-> popped,
               raised |-> Error("ValueError", <<"Unknown solver.">>),
               reads |-> <<>>, ret |-> "none"]
         ELSE [config |-> popped,
               raised |-> IF readOk THEN NoError ELSE Error("BackendError", <<"read">>),
               reads |-> <<[cls |-> registry[name], config |-> popped,
                            parameters |-> params, output_dir |-> output_dir]>>,
               ret |-> IF readOk THEN registry[name] ELSE "none"]

\* read_solver(config, parameters, output_dir).  readOk is the outcome of the
\* selected backend's read(); the result carries the caller's dictionary as
\* the call leaves it, the exception raised, the read() calls made and the
\* value returned.
read_solver(registry, cfg, params, output_dir, readOk) ==
    IF "name" \notin DOMAIN cfg
    THEN [config |-> cfg, raised |-> Error("ValueError", <<"Missing name for solver.">>),
          reads |-> <<>>, ret |-> "none"]
    ELSE LET name == cfg["name"]
             popped == Pop(cfg, "name") IN
         IF name \notin DOMAIN registry
         THEN [config |-> popped,
               raised |-> Error("ValueError", <<"Unknown solver '", name, "'.">>),
               reads |-> <<>>, ret |-> "none"]
         ELSE [config |-> popped,
               raised |-> IF readOk THEN NoError ELSE Error("BackendError", <<"read">>),
               reads |-> <<[cls |-> registry[name], config |-> popped,
                            parameters |-> params, output_dir |-> output_dir]>>,
               ret |-> IF readOk THEN registry[name] ELSE "none"]

\* ------------------------------------------------------------ file system
Seq2Set(s) == {s[i] : i \in 1..Len(s)}
Last(s) == s[Len(s)]
\* position of the first occurrence of e in s, 0 when absent
RECURSIVE IndexFrom(_, _, _)
IndexFrom(s, e, i) == IF i > Len(s) THEN 0 ELSE IF s[i] = e THEN i ELSE IndexFrom(s, e, i + 1)
Index(s, e) == IndexFrom(s, e, 1)
Count(s, e) == Cardinality({i \in 1..Len(s) : s[i] = e})

NoFiles == <<>>
Absent == [kind |-> "absent", files |-> NoFiles]

\* os.path.isdir(output_dir)
isdir(f) == f.kind = "dir"

rmtree_keep(f) == f

\* shutil.rmtree(output_dir): the directory and everything below it is gone
rmtree(f) == Absent

\* os.makedirs(output_dir, exist_ok=True): creates a missing directory, keeps
\* an existing one, and raises FileExistsError when the path is a regular file
makedirs(f) ==
    CASE f.kind = "absent" -> [fs |-> [kind |-> "dir", files |-> NoFiles], raised |-> NoError]
      [] f.kind = "dir"    -> [fs |-> f, raised |-> NoError]
      [] f.kind = "file"   -> [fs |-> f, raised |-> Error("FileExistsError", <<"output">>)]

\* open(os.path.join(output_dir, name), 'w') followed by a write of content:
\* the file is created or truncated, the other files are untouched
WriteFile(f, name, content) ==
    [f EXCEPT !.files = [n \in (DOMAIN f.files) \cup {name} |->
                            IF n = name THEN content ELSE f.files[n]]]

\* ------------------------------------------------------------- YAML dump
\* every key the configuration uses, in the (sorted) order safe_dump emits
KeyOrder == <<"iters", "links", "name", "objective", "optimiser", "output",
              "parameters", "quiet", "skip_last_run", "solver">>
\* keys whose value is itself a mapping
IsMapping(key) == key \in {"objective", "solver"}

RECURSIVE DumpFrom(_, _, _, _)
DumpFrom(d, path, i, withName) ==
    IF i > Len(KeyOrder) THEN <<>>
    ELSE LET key == KeyOrder[i]
             here == IF key \notin DOMAIN d \/ (key = "name" /\ ~withName) THEN <<>>
                     ELSE IF IsMapping(key)
                          THEN DumpFrom(d[key], Append(path, key), 1, withName)
                          ELSE << <<Append(path, key), d[key]>> >>
         IN here \o DumpFrom(d, path, i + 1, withName)

safe_dump_noname(d) == DumpFrom(d, <<>>, 1, FALSE)

\* yaml.safe_dump(config): one line <<key path, scalar>> per leaf, keys sorted
safe_dump(d) == DumpFrom(d, <<>>, 1, TRUE)

\* ---------------------------------------------------------- configuration
SolverNames == {"links", "nonexistent"}
OptimiserNames == {"botorch", "nonexistent"}
AVAILABLE_OPTIMISERS == {"botorch"}
BoundsChoices == {[lo |-> 0, hi |-> 10], [lo |-> 2, hi |-> 4], [lo |-> 5, hi |-> 5]}

\* dictionaries over the optional keys ks with values from vals[k]
Dicts(ks, vals) == UNION {[K -> UNION {vals[k] : k \in K}] : K \in SUBSET ks}
WellTyped(d, vals) == \A k \in DOMAIN d : d[k] \in vals[k]

SolverValues == [name |-> SolverNames, links |-> {"bin"}]
SolverConfigs == {d \in Dicts({"name", "links"}, SolverValues) : WellTyped(d, SolverValues)}

ParameterConfigs == UNION {[1..n -> BoundsChoices] : n \in 1..MaxParams}

\* what parse_config_file can return: the required keys are present, the
\* optional skip_last_run is absent, true or false
RequiredConfigs ==
    [iters : 0..MaxIters, objective : [solver : SolverConfigs],
     optimiser : OptimiserNames, output : {"out"},
     parameters : ParameterConfigs, quiet : BOOLEAN]
With(d, key, v) == [k \in (DOMAIN d) \cup {key} |-> IF k = key THEN v ELSE d[k]]
ConfigSpace ==
    RequiredConfigs \cup {With(d, "skip_last_run", b) : d \in RequiredConfigs, b \in BOOLEAN}

\* ------------------------------------------------------------ ParameterSet
\* parse_parameters(config): every Parameter needs lower < upper
parse_parameters(cfg) ==
    IF \A i \in 1..Len(cfg["parameters"]) : cfg["parameters"][i].lo < cfg["parameters"][i].hi
    THEN [ret |-> cfg["parameters"], raised |-> NoError]
    ELSE [ret |-> <<>>, raised |-> Error("ParameterError", <<"bounds">>)]

InBounds(params, raw) ==
    /\ Len(raw) = Len(params)
    /\ \A i \in 1..Len(params) : params[i].lo <= raw[i] /\ raw[i] <= params[i].hi

\* ParameterSet.normalise: component i mapped linearly from [lo, hi] to [0, 1],
\* as the fraction <<numerator, denominator>>
normalise(params, raw) ==
    [i \in 1..Len(params) |-> <<raw[i] - params[i].lo, params[i].hi - params[i].lo>>]

\* the raw points an optimiser can report as best
RawGrid(params) ==
    {raw \in [1..Len(params) -> 0..10] :
        \A i \in 1..Len(params) :
            raw[i] \in {params[i].lo, (params[i].lo + params[i].hi) \div 2, params[i].hi}}

\* read_objective(config["objective"], parameters, output_dir): the objective
\* builds its solver from the "solver" entry of the dictionary it is given
read_objective(registry, cfg, params, output_dir, readOk) ==
    LET r == read_solver(registry, cfg["solver"], params, output_dir, readOk)
    IN [config |-> [cfg EXCEPT !["solver"] = r.config], raised |-> r.raised,
        reads |-> r.reads, ret |-> IF r.raised = NoError THEN "objective" ELSE "none"]

\* read_optimiser(config["optimiser"], objective)
read_optimiser(name) ==
    IF name \in AVAILABLE_OPTIMISERS
    THEN [ret |-> name, raised |-> NoError]
    ELSE [ret |-> "none", raised |-> Error("ValueError", <<"Unknown optimiser '", name, "'.">>)]

\* ------------------------------------------------------------------ main
\* the statements of main in program order
MainOrder == <<"parse_config_file", "isdir", "makedirs", "safe_dump", "parse_parameters",
               "read_objective", "read_optimiser", "parse_stop_criteria", "optimise",
               "skip_last_run", "objective", "done">>
After(stmt) == MainOrder[Index(MainOrder, stmt) + 1]

OnError_swallow(stmt) ==
    IF stmt \in {"read_optimiser", "parse_stop_criteria"} THEN After(stmt) ELSE "raised"

\* main has no try/except: an exception raised by a statement leaves main
OnError(stmt) == "raised"

OldFiles == {"config", "result"}
OldContent == << << <<"output">>, "previous" >> >>
InitialFs == {Absent, [kind |-> "file", files |-> NoFiles]}
                \cup {[kind |-> "dir", files |-> [n \in S |-> OldContent]] : S \in SUBSET OldFiles}

MainIdle ==
    /\ pc = "done" /\ yaml = [valid |-> FALSE, doc |-> <<>>]
    /\ parsed = <<>> /\ config = <<>> /\ fs = Absent /\ fs0 = Absent
    /\ parameters = <<>> /\ objective = "none" /\ optimiser = "none" /\ stop = "none"
    /\ best_params = <<>> /\ err = NoError /\ log = <<>> /\ reads = <<>>
    /\ simRuns = 0 /\ driverEvals = <<>>

MainInit ==
    /\ pc = "parse_config_file"
    /\ yaml \in [valid : {TRUE}, doc : ConfigSpace] \cup {[valid |-> FALSE, doc |-> <<>>]}
    /\ parsed = <<>> /\ config = <<>>
    /\ fs \in InitialFs /\ fs0 = fs
    /\ parameters = <<>> /\ objective = "none" /\ optimiser = "none" /\ stop = "none"
    /\ best_params = <<>> /\ err = NoError /\ log = <<>> /\ reads = <<>>
    /\ simRuns = 0 /\ driverEvals = <<>>

\* the statement stmt finished: with the exception e, or normally
Finish(stmt, e) ==
    /\ pc' = IF e = NoError THEN After(stmt) ELSE OnError(stmt)
    /\ err' = e

\* config = parse_config_file(args.config)
Main_parse_config_file ==
    /\ pc = "parse_config_file"
    /\ log' = Append(log, "parse_config_file")
    /\ IF yaml.valid
       THEN /\ config' = yaml.doc /\ parsed' = yaml.doc
            /\ Finish("parse_config_file", NoError)
       ELSE /\ UNCHANGED <<config, parsed>>
            /\ Finish("parse_config_file", Error("RuntimeError", <<"config">>))
    /\ UNCHANGED <<solverVars, modelVars, AVAILABLE_SOLVERS>>
    /\ UNCHANGED <<yaml, fs0, fs, parameters, objective, optimiser, stop, best_params, reads,
                   simRuns, driverEvals>>

\* if os.path.isdir(output_dir): shutil.rmtree(output_dir)
Main_rmtree ==
    /\ pc = "isdir" /\ isdir(fs)
    /\ fs' = rmtree(fs)
    /\ log' = Append(log, "rmtree")
    /\ Finish("isdir", NoError)
    /\ UNCHANGED <<solverVars, modelVars, AVAILABLE_SOLVERS>>
    /\ UNCHANGED <<yaml, fs0, parsed, config, parameters, objective, optimiser, stop, best_params,
                   reads, simRuns, driverEvals>>

Main_no_rmtree ==
    /\ pc = "isdir" /\ ~isdir(fs)
    /\ Finish("isdir", NoError)
    /\ UNCHANGED <<solverVars, modelVars, AVAILABLE_SOLVERS>>
    /\ UNCHANGED <<yaml, fs0, parsed, config, fs, parameters, objective, optimiser, stop,
                   best_params, log, reads, simRuns, driverEvals>>

\* os.makedirs(output_dir, exist_ok=True)
Main_makedirs ==
    /\ pc = "makedirs"
    /\ fs' = makedirs(fs).fs
    /\ log' = Append(log, "makedirs")
    /\ Finish("makedirs", makedirs(fs).raised)
    /\ UNCHANGED <<solverVars, modelVars, AVAILABLE_SOLVERS>>
    /\ UNCHANGED <<yaml, fs0, parsed, config, parameters, objective, optimiser, stop, best_params,
                   reads, simRuns, driverEvals>>

\* with open(os.path.join(output_dir, "config"), 'w') as file: safe_dump(config, file)
Main_safe_dump ==
    /\ pc = "safe_dump"
    /\ fs' = WriteFile(fs, "config", safe_dump(config))
    /\ log' = Append(log, "safe_dump")
    /\ Finish("safe_dump", NoError)
    /\ UNCHANGED <<solverVars, modelVars, AVAILABLE_SOLVERS>>
    /\ UNCHANGED <<yaml, fs0, parsed, config, parameters, objective, optimiser, stop, best_params,
                   reads, simRuns, driverEvals>>

\* parameters = parse_parameters(config)
Main_parse_parameters ==
    /\ pc = "parse_parameters"
    /\ parameters' = parse_parameters(config).ret
    /\ log' = Append(log, "parse_parameters")
    /\ Finish("parse_parameters", parse_parameters(config).raised)
    /\ UNCHANGED <<solverVars, modelVars, AVAILABLE_SOLVERS>>
    /\ UNCHANGED <<yaml, fs0, parsed, config, fs, objective, optimiser, stop, best_params,
                   reads, simRuns, driverEvals>>

\* objective = read_objective(config["objective"], parameters, output_dir)
Main_read_objective ==
    /\ pc = "read_objective"
    /\ \E readOk \in BOOLEAN :
        LET r == read_objective(AVAILABLE_SOLVERS, config["objective"], parameters,
                                config["output"], readOk)
        IN /\ config' = [config EXCEPT !["objective"] = r.config]
           /\ objective' = r.ret
           /\ reads' = reads \o r.reads
           /\ Finish("read_objective", r.raised)
    /\ log' = Append(log, "read_objective")
    /\ UNCHANGED <<solverVars, modelVars, AVAILABLE_SOLVERS>>
    /\ UNCHANGED <<yaml, fs0, parsed, fs, parameters, optimiser, stop, best_params,
                   simRuns, driverEvals>>

\* optimiser = read_optimiser(config["optimiser"], objective)
Main_read_optimiser ==
    /\ pc = "read_optimiser"
    /\ optimiser' = read_optimiser(config["optimiser"]).ret
    /\ log' = Append(log, "read_optimiser")
    /\ Finish("read_optimiser", read_optimiser(config["optimiser"]).raised)
    /\ UNCHANGED <<solverVars, modelVars, AVAILABLE_SOLVERS>>
    /\ UNCHANGED <<yaml, fs0, parsed, config, fs, parameters, objective, stop, best_params,
                   reads, simRuns, driverEvals>>

\* stop = parse_stop_criteria(config)
Main_parse_stop_criteria ==
    /\ pc = "parse_stop_criteria"
    /\ log' = Append(log, "parse_stop_criteria")
    /\ \E ok \in BOOLEAN :
        /\ stop' = IF ok THEN "criteria" ELSE "none"
        /\ Finish("parse_stop_criteria",
                  IF ok THEN NoError ELSE Error("ValueError", <<"stop criteria">>))
    /\ UNCHANGED <<solverVars, modelVars, AVAILABLE_SOLVERS>>
    /\ UNCHANGED <<yaml, fs0, parsed, config, fs, parameters, objective, optimiser, best_params,
                   reads, simRuns, driverEvals>>

\* _, best_params = optimiser.optimise(config["iters"], parameters, output_dir, ...)
\* the call evaluates the objective k times and returns a best point or raises
Main_optimise ==
    /\ pc = "optimise"
    /\ log' = Append(log, "optimise")
    /\ \E k \in 0..config["iters"], ok \in BOOLEAN, best \in RawGrid(parameters) :
        /\ simRuns' = simRuns + k
        /\ best_params' = IF ok THEN best ELSE best_params
        /\ Finish("optimise", IF ok THEN NoError ELSE Error("RuntimeError", <<"optimise">>))
    /\ UNCHANGED <<solverVars, modelVars, AVAILABLE_SOLVERS>>
    /\ UNCHANGED <<yaml, fs0, parsed, config, fs, parameters, objective, optimiser, stop,
                   reads, driverEvals>>

\* if 'skip_last_run' not in config:
Main_skip_last_run ==
    /\ pc = "skip_last_run"
    /\ pc' = IF "skip_last_run" \notin DOMAIN config THEN "objective" ELSE "done"
    /\ UNCHANGED <<solverVars, modelVars, AVAILABLE_SOLVERS>>
    /\ UNCHANGED <<yaml, fs0, parsed, config, fs, parameters, objective, optimiser, stop,
                   best_params, err, log, reads, simRuns, driverEvals>>

\* the argument of the re-run
RerunArg_raw(params, best) == [i \in 1..Len(best) |-> <<best[i], 1>>]

RerunArg(params, best) == normalise(params, best)

\* objective(parameters.normalise(best_params))
Main_objective ==
    /\ pc = "objective"
    /\ IF ~InBounds(parameters, best_params)
       THEN /\ Finish("objective", Error("ParameterError", <<"normalise">>))
            /\ log' = Append(log, "normalise")
            /\ UNCHANGED driverEvals
       ELSE /\ driverEvals' = Append(driverEvals, RerunArg(parameters, best_params))
            /\ log' = Append(log, "objective")
            /\ \E ok \in BOOLEAN :
                Finish("objective", IF ok THEN NoError ELSE Error("RuntimeError", <<"solver">>))
    /\ UNCHANGED <<solverVars, modelVars, AVAILABLE_SOLVERS>>
    /\ UNCHANGED <<yaml, fs0, parsed, config, fs, parameters, objective, optimiser, stop,
                   best_params, reads, simRuns>>

MainNext ==
    \/ Main_parse_config_file \/ Main_rmtree \/ Main_no_rmtree \/ Main_makedirs
    \/ Main_safe_dump \/ Main_parse_parameters \/ Main_read_objective
    \/ Main_read_optimiser \/ Main_parse_stop_criteria \/ Main_optimise
    \/ Main_skip_last_run \/ Main_objective

NoCall == [config |-> <<>>, raised |-> NoError, reads |-> <<>>, ret |-> "none"]
SolverIdle ==
    /\ rs_pc = "idle" /\ rs_in = <<>> /\ rs_config = <<>> /\ rs_parameters = <<>>
    /\ rs_output_dir = "none" /\ rs_out = NoCall

NoModel == [cls |-> "none"]
ModelIdle ==
    /\ gm_pc = "idle" /\ x_data = <<>> /\ y_data = <<>>
    /\ var_data = [given |-> FALSE, data |-> <<>>] /\ noisy = FALSE
    /\ built = <<>> /\ fitCalls = 0 /\ gm_ret = NoModel /\ gm_err = NoError

Init == MainInit /\ AVAILABLE_SOLVERS = SolverRegistry /\ SolverIdle /\ ModelIdle
Next == MainNext
Spec == Init /\ [][Next]_vars

\* ------------------------------------------------- read_solver on its own
StandaloneNames == {"links", "nonexistent", "abaqus"}
StandaloneValues == [name |-> StandaloneNames, links |-> {"bin", "other"},
                     parallel |-> {"1", "2"}]
StandaloneKeys == {"name", "links", "parallel"}
\* the dictionaries read_solver is called with
StandaloneConfigs ==
    UNION {{d \in [K -> StandaloneNames \cup {"bin", "other", "1", "2"}] :
                \A k \in K : d[k] \in StandaloneValues[k]} : K \in SUBSET StandaloneKeys}

SolverInit ==
    /\ rs_pc = "call"
    /\ rs_in \in StandaloneConfigs
    /\ rs_config = rs_in
    /\ rs_parameters \in {<<[lo |-> 0, hi |-> 10]>>, <<[lo |-> 0, hi |-> 10], [lo |-> 2, hi |-> 4]>>}
    /\ rs_output_dir \in {"out", "tmp"}
    /\ rs_out = NoCall

\* solver = read_solver(config, parameters, output_dir)
ReadSolver ==
    /\ rs_pc = "call"
    /\ \E readOk \in BOOLEAN :
        LET r == read_solver(AVAILABLE_SOLVERS, rs_config, rs_parameters, rs_output_dir, readOk)
        IN /\ rs_out' = r
           /\ rs_config' = r.config
           /\ rs_pc' = IF r.raised = NoError THEN "returned" ELSE "raised"
    /\ UNCHANGED <<rs_in, rs_parameters, rs_output_dir>>
    /\ UNCHANGED <<mainVars, modelVars, AVAILABLE_SOLVERS>>

InitSolver == SolverInit /\ AVAILABLE_SOLVERS = SolverRegistry /\ MainIdle /\ ModelIdle
SolverNext == ReadSolver
SpecSolver == InitSolver /\ [][SolverNext]_vars

\* -------------------------------------------------------------- get_model
\* tensor.unsqueeze(1): shape (m,) becomes (m, 1)
unsqueeze(v) == [i \in 1..Len(v) |-> <<v[i]>>]
\* torch.zeros_like(t): zeros in the shape of t
zeros_like(t) == [i \in 1..Len(t) |-> [j \in 1..Len(t[i]) |-> 0]]
\* number of columns of a two-dimensional array
Columns(t) == Len(t[1])

Normalize(d) == [cls |-> "Normalize", d |-> d]
Standardize(m) == [cls |-> "Standardize", m |-> m]
SingleTaskGP(x, y, it, ot) ==
    [cls |-> "SingleTaskGP", train_X |-> x, train_Y |-> y,
     noise |-> [mode |-> "inferred", train_Yvar |-> <<>>],
     input_transform |-> it, outcome_transform |-> ot, fitted |-> FALSE]
FixedNoiseGP(x, y, yvar, it, ot) ==
    [cls |-> "FixedNoiseGP", train_X |-> x, train_Y |-> y,
     noise |-> [mode |-> "fixed", train_Yvar |-> yvar],
     input_transform |-> it, outcome_transform |-> ot, fitted |-> FALSE]

BuildGP_novar(xd, yd, vd, nsy) ==
    LET x == xd
        y == unsqueeze(yd)
    IN IF nsy
       THEN SingleTaskGP(x, y, Normalize(1), Standardize(1))
       ELSE FixedNoiseGP(x, y, zeros_like(y), Normalize(1), Standardize(1))

\* the model get_model constructs before fitting it
BuildGP(xd, yd, vd, nsy) ==
    LET x == xd
        y == unsqueeze(yd)
    IN IF nsy
       THEN SingleTaskGP(x, y, Normalize(1), Standardize(1))
       ELSE IF ~vd.given
            THEN FixedNoiseGP(x, y, zeros_like(y), Normalize(1), Standardize(1))
            ELSE FixedNoiseGP(x, y, unsqueeze(vd.data), Normalize(1), Standardize(1))

Arrays(m, n) == [1..m -> [1..n -> {0, 1}]]
Vectors(m) == [1..m -> {0, 1}]

ModelInit ==
    /\ gm_pc = "build"
    /\ \E m \in 1..MaxRows, n \in 1..MaxDim :
        /\ x_data \in Arrays(m, n)
        /\ y_data \in Vectors(m)
        /\ var_data \in {[given |-> FALSE, data |-> <<>>]}
                            \cup [given : {TRUE}, data : Vectors(m)]
    /\ noisy \in BOOLEAN
    /\ built = <<>> /\ fitCalls = 0 /\ gm_ret = NoModel /\ gm_err = NoError

\* x = ...; y = ...; gp = SingleTaskGP(...) or FixedNoiseGP(...)
GetModel_build ==
    /\ gm_pc = "build"
    /\ built' = Append(built, BuildGP(x_data, y_data, var_data, noisy))
    /\ gm_pc' = "fit"
    /\ UNCHANGED <<x_data, y_data, var_data, noisy, fitCalls, gm_ret, gm_err>>
    /\ UNCHANGED <<mainVars, solverVars, AVAILABLE_SOLVERS>>

\* mll = ExactMarginalLogLikelihood(gp.likelihood, gp); fit_gpytorch_mll(mll)
\* the library call fits gp in place, or raises
GetModel_fit ==
    /\ gm_pc = "fit"
    /\ fitCalls' = fitCalls + 1
    /\ \E ok \in BOOLEAN :
        IF ok
        THEN /\ built' = [built EXCEPT ![Len(built)].fitted = TRUE]
             /\ gm_pc' = "return"
             /\ UNCHANGED gm_err
        ELSE /\ gm_err' = Error("LibraryError", <<"fit_gpytorch_mll">>)
             /\ gm_pc' = "raised"
             /\ UNCHANGED built
    /\ UNCHANGED <<x_data, y_data, var_data, noisy, gm_ret>>
    /\ UNCHANGED <<mainVars, solverVars, AVAILABLE_SOLVERS>>

\* return gp
GetModel_return ==
    /\ gm_pc = "return"
    /\ gm_ret' = Last(built)
    /\ gm_pc' = "returned"
    /\ UNCHANGED <<x_data, y_data, var_data, noisy, built, fitCalls, gm_err>>
    /\ UNCHANGED <<mainVars, solverVars, AVAILABLE_SOLVERS>>

ModelNext == GetModel_build \/ GetModel_fit \/ GetModel_return
InitModel == ModelInit /\ AVAILABLE_SOLVERS = SolverRegistry /\ MainIdle /\ SolverIdle
SpecModel == InitModel /\ [][ModelNext]_vars

\* ================================================================ claims
Called(stmt) == Index(log, stmt) > 0
Before(a, b) == Called(a) /\ Called(b) /\ Index(log, a) < Index(log, b)

\* the statements of main that parse or validate the configuration
ConfigSteps == {"parse_parameters", "read_objective", "read_optimiser", "parse_stop_criteria"}
\* the statement main executed last raised a configuration error
ConfigFailed == log # <<>> /\ Last(log) \in ConfigSteps /\ err # NoError

\* read_solver was called with a name the registry does not hold
UnknownNameCall ==
    /\ rs_pc \in {"returned", "raised"}
    /\ "name" \in DOMAIN rs_in
    /\ rs_in["name"] \notin DOMAIN AVAILABLE_SOLVERS

C2_ConfigErrorAborts ==
    /\ [](ConfigFailed =>
            /\ pc = "raised"
            /\ ~Called("optimise") /\ ~Called("objective")
            /\ simRuns = 0 /\ driverEvals = <<>>)
    /\ [][~ConfigFailed]_vars

C2_Witness ==
    /\ ConfigFailed /\ Last(log) = "read_optimiser" /\ pc = "raised"
    /\ err.type = "ValueError" /\ Mentions(err, "nonexistent")

\* the user asked to skip the reference run
SkipRequested == "skip_last_run" \in DOMAIN config /\ config["skip_last_run"] = TRUE

\* C3: after optimise returned, main re-evaluates the objective at the best
\* point iff skip_last_run is false or not given.
C3_SkipLastRunIsBoolean ==
    pc = "done" => (Called("objective") <=> ~SkipRequested)

\* C4 as stated: in every run of main optimise is called exactly once.
C4_OptimiseExactlyOnceInEveryRun ==
    pc \in {"done", "raised"} => Count(log, "optimise") = 1

IsUnitVector(v, n) ==
    /\ Len(v) = n
    /\ \A i \in 1..n : v[i][2] > 0 /\ 0 <= v[i][1] /\ v[i][1] <= v[i][2]

\* C4 amended: optimise is called at most once in any run and exactly once in
\* every run that gets past parse_stop_criteria; main evaluates the objective
\* at most once, strictly after optimise returned, on
\* parameters.normalise(best_params) with best_params the point that optimise
\* call returned; main evaluates nothing if optimise fails.
C4_ReferenceRun ==
    /\ Count(log, "optimise") <= 1
    /\ (pc \in {"skip_last_run", "objective", "done"} \/ Called("objective") \/ Called("normalise"))
            => Count(log, "optimise") = 1
    /\ Len(driverEvals) <= 1
    /\ Len(driverEvals) = Count(log, "objective")
    /\ driverEvals # <<>> =>
            /\ Before("optimise", "objective")
            /\ best_params \in RawGrid(parameters)
            /\ IsUnitVector(driverEvals[1], Len(parameters))
            /\ \A i \in 1..Len(parameters) :
                 /\ driverEvals[1][i][1] = best_params[i] - parameters[i].lo
                 /\ driverEvals[1][i][2] = parameters[i].hi - parameters[i].lo
    /\ (Called("optimise") /\ Last(log) = "optimise" /\ pc = "raised") => driverEvals = <<>>

C4_Witness ==
    /\ pc = "done" /\ Len(driverEvals) = 1 /\ Len(parameters) = 2
    /\ best_params = <<5, 3>> /\ driverEvals[1] = <<<<5, 10>>, <<1, 2>>>>

\* C5: noisy = true builds a SingleTaskGP; noisy = false builds a FixedNoiseGP
\* whose noise is var_data when given and zero for every observation (in the
\* shape of y) otherwise; one model is built, it is fitted once, and it is the
\* one returned.
C5_Modes ==
    /\ Len(built) <= 1 /\ fitCalls <= 1
    /\ gm_pc = "returned" =>
        /\ Len(built) = 1 /\ fitCalls = 1
        /\ gm_ret = built[1] /\ gm_ret.fitted
        /\ gm_ret.train_X = x_data
        /\ Len(gm_ret.train_Y) = Len(y_data)
        /\ \A i \in 1..Len(y_data) : gm_ret.train_Y[i] = <<y_data[i]>>
        /\ noisy => gm_ret.cls = "SingleTaskGP" /\ gm_ret.noise.mode = "inferred"
        /\ ~noisy =>
            /\ gm_ret.cls = "FixedNoiseGP" /\ gm_ret.noise.mode = "fixed"
            /\ Len(gm_ret.noise.train_Yvar) = Len(y_data)
            /\ \A i \in 1..Len(y_data) :
                 gm_ret.noise.train_Yvar[i] =
                    <<IF var_data.given THEN var_data.data[i] ELSE 0>>

C5_Witness ==
    /\ gm_pc = "returned" /\ ~noisy /\ var_data.given
    /\ var_data.data = <<1, 0>> /\ gm_ret.noise.train_Yvar = <<<<1>>, <<0>>>>

\* C6: a failed fit is retried a bounded number of times and only then
\* surfaces as a SurrogateFitError; one failed attempt never leaves get_model
\* as the library's own error.
C6_FitFailureRetried ==
    gm_pc = "raised" => gm_err.type = "SurrogateFitError" /\ fitCalls > 1

\* C7: the input normalisation transform of the model get_model builds is
\* configured for as many dimensions as x_data has columns.
C7_TransformDimension ==
    built # <<>> => built[1].input_transform.d = Columns(x_data)

\* main is about to call optimise, or has called it
ReachedOptimise == pc = "optimise" \/ Called("optimise")

\* C8: in every run that reaches optimise the output directory exists and its
\* file "config", written before the objective was built and before optimise
\* was called, holds the configuration as parsed, the solver's 'name' included.
C8_ConfigPersisted ==
    ReachedOptimise =>
        /\ fs.kind = "dir" /\ "config" \in DOMAIN fs.files
        /\ Before("safe_dump", "read_objective")
        /\ Called("optimise") => Before("safe_dump", "optimise")
        /\ fs.files["config"] = safe_dump(parsed)
        /\ "name" \in DOMAIN parsed["objective"]["solver"]
        /\ \E i \in 1..Len(fs.files["config"]) :
             /\ fs.files["config"][i][1] = <<"objective", "solver", "name">>
             /\ fs.files["config"][i][2] = parsed["objective"]["solver"]["name"]

C8_Witness ==
    /\ pc = "optimise" /\ "config" \in DOMAIN fs.files
    /\ "name" \notin DOMAIN config["objective"]["solver"]
    /\ "skip_last_run" \in DOMAIN parsed

\* C9: read_solver leaves the caller's dictionary unchanged when 'name' is
\* missing; otherwise it removes 'name' and nothing else, also when the name
\* is unknown; a known name's backend read() receives the dictionary without
\* 'name' and the same parameters and output_dir; the registry is unchanged.
C9_ConfigEffect ==
    rs_pc \in {"returned", "raised"} =>
        /\ "name" \notin DOMAIN rs_in =>
                rs_pc = "raised" /\ rs_config = rs_in /\ rs_out.reads = <<>>
        /\ "name" \in DOMAIN rs_in =>
            /\ DOMAIN rs_config = (DOMAIN rs_in) \ {"name"}
            /\ \A k \in DOMAIN rs_config : rs_config[k] = rs_in[k]
            /\ rs_in["name"] \in DOMAIN SolverRegistry =>
                /\ Len(rs_out.reads) = 1
                /\ rs_out.reads[1].cls = SolverRegistry[rs_in["name"]]
                /\ rs_out.reads[1].config = rs_config
                /\ rs_out.reads[1].parameters = rs_parameters
                /\ rs_out.reads[1].output_dir = rs_output_dir
        /\ AVAILABLE_SOLVERS = SolverRegistry

C9_Witness ==
    /\ rs_pc = "raised" /\ DOMAIN rs_in = {"name", "links", "parallel"}
    /\ rs_in["name"] = "abaqus" /\ DOMAIN rs_config = {"links", "parallel"}

\* C10: a pre-existing output directory is removed and recreated before
\* parameters, objective, optimiser and stop criteria are parsed; when one of
\* those steps fails, the old contents are gone and the directory holds only
\* the newly written "config".
C10_OldOutputGone ==
    /\ Called("parse_parameters") =>
        /\ Before("makedirs", "parse_parameters")
        /\ isdir(fs0) => Before("rmtree", "makedirs")
    /\ ConfigFailed =>
        /\ fs.kind = "dir" /\ DOMAIN fs.files = {"config"}
        /\ fs.files["config"] = safe_dump(parsed)

C10_Witness ==
    /\ ConfigFailed /\ pc = "raised" /\ Last(log) = "parse_parameters"
    /\ isdir(fs0) /\ DOMAIN fs0.files = {"config", "result"}
    /\ DOMAIN fs.files = {"config"} /\ fs.files["config"] # fs0.files["config"]

====
